---- MODULE Spec2Model ----
(***************************************************************************)
(* A model of extrair_pdf.py: the discovery of PDF files                   *)
(* (ListarArquivosPdf.listar), the batch runner (ProcessarPasta.processar) *)
(* and the per-file job (ExtrairPdf.extrair).                              *)
(*                                                                         *)
(* Text is modelled as sequences of one-character strings, so that         *)
(* lower-casing, suffix matching, stems and path ordering are computed     *)
(* character by character as the Python code computes them.  A path under  *)
(* the (resolved) source directory is a record [dir, nome]: dir is the     *)
(* sequence of directory names below the source directory and nome the     *)
(* file name.  The common prefix (the source directory itself) is left     *)
(* out: it is the same for every path the listing returns, so it changes   *)
(* neither the comparison of lower-cased paths nor the order of paths.     *)
(***************************************************************************)
EXTENDS Integers, Sequences, FiniteSets, TLC

VARIABLES
    \* ---- ListarArquivosPdf.listar, run on its own
    plataforma,     \* "posix" | "windows": decides how glob and Path compare case
    origemEhPasta,  \* the source path exists and is a directory
    arvore,         \* the files below the source directory (a set of nodes)
    subpastas,      \* the subpastas argument
    pcListar,       \* "inicio" | "fim"
    arquivos        \* the list listar returned

varsListar == <<plataforma, origemEhPasta, arvore, subpastas, pcListar, arquivos>>

VARIABLES
    \* ---- the environment of a batch run or of a job
    docling,        \* DOCLING_DISPONIVEL: the mandatory converter library imports
    libgl,          \* verificar_dependencias_opcionais()['libgl'] is truthy
    tesseract,      \* verificar_dependencias_opcionais()['tesseract'] is truthy
    bloqueadas,     \* the directories mkdir cannot create (the path is taken by a
                    \* regular file, or its parent is not writable)
    saidas,         \* the .md and .log files below the destination and log roots
    dicas,          \* the run that last wrote dicas_ambiente.md (0: never written)
    \* ---- ProcessarPasta
    sobrescrever,
    ignorarDependencias,
    logSeparado,    \* pasta_log != pasta_destino
    pcLote,         \* "parado" | "inicio" | "laco" | "resumo" | "fim" | "excecao"
    execucao,       \* the number of this run (each run is a new ProcessarPasta)
    indice,         \* the position in arquivos of the next file of the loop
    total,          \* total_processados, total_sucesso, total_falha, total_ignorados
    estatisticas,   \* what processar returned ({} before it returns)
    logGeralSalvo,  \* _salvar_log() wrote log_extração.txt in this run
    \* ---- what happened, kept to state the properties
    tarefas,        \* the ExtrairPdf jobs this run created, in order
    ignoradosExec,  \* the files this run skipped, in order, each with its .md
                    \* and .log as they were when the file was skipped
    saidasInicio,   \* saidas when this run started
    anterior,       \* the previous run: its statistics and how many files it found
    chamada,        \* which call of processar() on its object this run is
    totalInicio     \* the counters of the object when this call began

varsAmbiente == <<docling, libgl, tesseract, bloqueadas, saidas, dicas>>

varsLote == <<sobrescrever, ignorarDependencias, logSeparado, pcLote, execucao,
              indice, total, estatisticas, logGeralSalvo, tarefas, ignoradosExec,
              saidasInicio, anterior, chamada, totalInicio>>

VARIABLES
    \* ---- ExtrairPdf, one job run on its own
    pcExtrair,          \* "parado" | "existe" | "dependencias" | "converter" |
                        \* "montar" | "gravar" | "fim"
    arquivoExiste,      \* self.arquivo_pdf.exists()
    logExtrair,         \* self.log: the messages added, in order
    logExtrairSalvo,    \* _salvar_log() wrote the .log file
    converterChamado,   \* how many times converter.convert was called
    converterFalhou,    \* converter.convert raised
    itens,              \* the items documento.iterate_items() yielded, in order
    paginasConteudo,    \* paginas_conteudo, in insertion order
    contadorImagens,    \* self.contador_imagens
    markdownFinal,      \* markdown_final, as a sequence of symbols
    retorno,            \* "pendente" | "True" | "False" | "excecao"
    numPaginas,         \* num_paginas as logged (0 before it is computed)
    \* ---- what happened, kept to state the properties
    exportacao,         \* what documento.export_to_markdown() returned
    emitidas            \* the numbers of the image tags, in the order of issue

varsExtrair == <<pcExtrair, arquivoExiste, logExtrair, logExtrairSalvo,
                 converterChamado, converterFalhou, itens, paginasConteudo,
                 contadorImagens, markdownFinal, retorno, numPaginas, exportacao,
                 emitidas>>

VARIABLES
    \* ---- limpar_texto, applied on its own
    entrada,            \* the text given to limpar_texto
    limpos              \* the results of the successive applications

varsLimpar == <<entrada, limpos>>

VARIABLES
    \* ---- the program run from the command line
    pcMain,             \* "parado" | "inicio" | "fim"
    argumento,          \* what sys.argv holds (see Argumentos)
    resposta,           \* the answer to the question about the model file
    codigoSaida         \* the exit status of the process (-1 while it runs)

varsMain == <<pcMain, argumento, resposta, codigoSaida>>

vars == <<varsListar, varsAmbiente, varsLote, varsExtrair, varsLimpar, varsMain>>

-----------------------------------------------------------------------------
(* Bounds of the model. *)

\* The largest number of files below the source directory.
MaxArquivos == 3

\* The number of batch runs, one after the other, over the same directories.
MaxExecucoes == 2

\* The largest number of items the converter yields for one document.
MaxItens == 3

\* The largest page number of an item.
MaxPagina == 2

\* The largest length of a text given to limpar_texto on its own.
MaxTexto == 4

-----------------------------------------------------------------------------
(* Characters and strings. *)

\* The characters file names are made of in this model.
Chars == {".", "D", "F", "P", "S", "X", "a", "b", "d", "f", "g", "l", "m", "o",
          "p", "s", "t", "x"}

\* ord(c): Python compares strings by code point.
CodePoint(c) ==
    CASE c = "." -> 46
      [] c = "D" -> 68
      [] c = "F" -> 70
      [] c = "P" -> 80
      [] c = "S" -> 83
      [] c = "X" -> 88
      [] c = "a" -> 97
      [] c = "b" -> 98
      [] c = "d" -> 100
      [] c = "f" -> 102
      [] c = "g" -> 103
      [] c = "l" -> 108
      [] c = "m" -> 109
      [] c = "o" -> 111
      [] c = "p" -> 112
      [] c = "s" -> 115
      [] c = "t" -> 116
      [] c = "x" -> 120

\* str.lower() on one character.
LowerChar(c) ==
    CASE c = "D" -> "d"
      [] c = "F" -> "f"
      [] c = "P" -> "p"
      [] c = "S" -> "s"
      [] c = "X" -> "x"
      [] OTHER -> c

\* str.lower()
Lower(s) == [i \in 1..Len(s) |-> LowerChar(s[i])]

\* a < b on Python strings: lexicographic by code point, a proper prefix first.
RECURSIVE StrLess(_, _)
StrLess(a, b) ==
    IF b = <<>> THEN FALSE
    ELSE IF a = <<>> THEN TRUE
    ELSE IF CodePoint(Head(a)) # CodePoint(Head(b))
         THEN CodePoint(Head(a)) < CodePoint(Head(b))
         ELSE StrLess(Tail(a), Tail(b))

\* str.endswith
EndsWith(s, suf) ==
    /\ Len(s) >= Len(suf)
    /\ SubSeq(s, Len(s) - Len(suf) + 1, Len(s)) = suf

\* The position of the last "." of a name, 0 when it has none (str.rfind + 1).
RECURSIVE RFindDot(_, _)
RFindDot(s, i) ==
    IF i = 0 THEN 0
    ELSE IF s[i] = "." THEN i
    ELSE RFindDot(s, i - 1)

\* PurePath.stem: the name without its last suffix; a leading or a trailing
\* dot starts no suffix.
Stem(nome) ==
    LET i == RFindDot(nome, Len(nome))
    IN  IF 1 < i /\ i < Len(nome) THEN SubSeq(nome, 1, i - 1) ELSE nome

\* PurePath.suffix, lower-cased without its dot ("" when there is none).
Extensao(nome) ==
    LET i == RFindDot(nome, Len(nome))
    IN  IF 1 < i /\ i < Len(nome) THEN Lower(SubSeq(nome, i + 1, Len(nome))) ELSE <<>>

-----------------------------------------------------------------------------
(* Paths. *)

\* The path of a node of the tree: what glob yields for it.
Caminho(n) == [dir |-> n.dir, nome |-> n.nome]

\* PurePath.parts, below the source directory.
Parts(p) == Append(p.dir, p.nome)

\* str(arq).lower(): two paths below the same directory have equal lower-cased
\* strings exactly when their parts are equal after lower-casing (no name
\* holds a separator).
CaminhoNormalizado(p) == [i \in 1..Len(Parts(p)) |-> Lower(Parts(p)[i])]

\* The parts Path compares: as they are on POSIX, case-folded on Windows.
PartsComparadas(p, plat) ==
    IF plat = "windows" THEN CaminhoNormalizado(p) ELSE Parts(p)

\* Tuple comparison of the compared parts (PurePath.__lt__).
RECURSIVE PartsLess(_, _)
PartsLess(a, b) ==
    IF b = <<>> THEN FALSE
    ELSE IF a = <<>> THEN TRUE
    ELSE IF Head(a) # Head(b) THEN StrLess(Head(a), Head(b))
    ELSE PartsLess(Tail(a), Tail(b))

PathLess(p, q, plat) == PartsLess(PartsComparadas(p, plat), PartsComparadas(q, plat))

-----------------------------------------------------------------------------
(* ListarArquivosPdf.listar *)

\* fnmatch of a name against "*<sufixo>": case-sensitive on POSIX, both sides
\* case-normalised on Windows.
GlobMatch(nome, sufixo, plat) ==
    IF plat = "windows" THEN EndsWith(Lower(nome), Lower(sufixo))
    ELSE EndsWith(nome, sufixo)

\* pasta.rglob("*<sufixo>") or pasta.glob("*<sufixo>"): the matching files in
\* the order `ordem` in which the file system enumerates the tree; glob looks
\* at the top level only.
Glob(ordem, sufixo, recursivo, plat) ==
    SelectSeq(ordem, LAMBDA p : /\ GlobMatch(p.nome, sufixo, plat)
                                 /\ (recursivo \/ p.dir = <<>>))

SufixoMinusculo == <<".", "p", "d", "f">>
SufixoMaiusculo == <<".", "P", "D", "F">>

\* Lines 451-458: keeps the first path of each lower-cased path.
RECURSIVE RemoverDuplicatasDe(_, _, _)
RemoverDuplicatasDe(arqs, vistos, unicos) ==
    IF arqs = <<>> THEN unicos
    ELSE LET norm == CaminhoNormalizado(Head(arqs))
         IN  IF norm \in vistos
             THEN RemoverDuplicatasDe(Tail(arqs), vistos, unicos)
             ELSE RemoverDuplicatasDe(Tail(arqs), vistos \cup {norm},
                                      Append(unicos, Head(arqs)))

\* A deduplication that compares the paths as they are, not lower-cased.
RECURSIVE RemoverDuplicatasExatas(_)
RemoverDuplicatasExatas(arqs) ==
    IF arqs = <<>> THEN <<>>
    ELSE LET resto == RemoverDuplicatasExatas(SubSeq(arqs, 1, Len(arqs) - 1))
             ultimo == arqs[Len(arqs)]
         IN  IF \E i \in 1..Len(resto) : resto[i] = ultimo
             THEN resto ELSE Append(resto, ultimo)

RemoverDuplicatas(arqs) == RemoverDuplicatasDe(arqs, {}, <<>>)

\* sorted(): insertion of each element after the elements not greater than it.
RECURSIVE Inserir(_, _, _)
Inserir(p, s, plat) ==
    IF s = <<>> THEN <<p>>
    ELSE IF PathLess(p, Head(s), plat) THEN <<p>> \o s
    ELSE <<Head(s)>> \o Inserir(p, Tail(s), plat)

RECURSIVE Sorted(_, _)
Sorted(s, plat) ==
    IF s = <<>> THEN <<>>
    ELSE Inserir(s[Len(s)], Sorted(SubSeq(s, 1, Len(s) - 1), plat), plat)

\* Lines 446-449: the two globs, one after the other.
BuscarPdf(ordem, sub, plat) ==
    Glob(ordem, SufixoMinusculo, sub, plat) \o Glob(ordem, SufixoMaiusculo, sub, plat)

\* ListarArquivosPdf.listar
Listar(ehPasta, ordem, sub, plat) ==
    IF ~ehPasta THEN <<>>
    ELSE Sorted(RemoverDuplicatas(BuscarPdf(ordem, sub, plat)), plat)

\* The orders in which a file system may enumerate a set of paths: every
\* order that keeps the entries of one directory together.
RECURSIVE Enumeracoes(_)
Enumeracoes(S) ==
    IF S = {} THEN {<<>>}
    ELSE UNION {{<<x>> \o t : t \in Enumeracoes(S \ {x})} : x \in S}

OrdensDeLeitura(S) ==
    {o \in Enumeracoes(S) :
        \A i, j, k \in 1..Len(o) :
            (i < j /\ j < k /\ o[i].dir = o[k].dir) => o[j].dir = o[i].dir}

-----------------------------------------------------------------------------
(* The values of the variables a specification does not use. *)

\* estatisticas and anterior hold at most one record: none before processar
\* returns, none for a run that an exception ended.
SemEstatisticas == {}

Zeros == [processados |-> 0, sucesso |-> 0, falha |-> 0, ignorados |-> 0]

AmbienteParado ==
    /\ docling = TRUE
    /\ libgl = TRUE
    /\ tesseract = TRUE
    /\ bloqueadas = {}
    /\ saidas = {}
    /\ dicas = 0

LoteParado ==
    /\ sobrescrever = FALSE
    /\ ignorarDependencias = TRUE
    /\ logSeparado = FALSE
    /\ pcLote = "parado"
    /\ execucao = 0
    /\ indice = 0
    /\ total = Zeros
    /\ estatisticas = SemEstatisticas
    /\ logGeralSalvo = FALSE
    /\ tarefas = <<>>
    /\ ignoradosExec = <<>>
    /\ saidasInicio = {}
    /\ anterior = SemEstatisticas
    /\ chamada = 0
    /\ totalInicio = Zeros

ExtrairParado ==
    /\ pcExtrair = "parado"
    /\ arquivoExiste = TRUE
    /\ logExtrair = <<>>
    /\ logExtrairSalvo = FALSE
    /\ converterChamado = 0
    /\ converterFalhou = FALSE
    /\ itens = <<>>
    /\ paginasConteudo = <<>>
    /\ contadorImagens = 0
    /\ markdownFinal = <<>>
    /\ retorno = "pendente"
    /\ numPaginas = 0
    /\ exportacao = <<>>
    /\ emitidas = <<>>

LimparParado ==
    /\ entrada = <<>>
    /\ limpos = <<>>

MainParado ==
    /\ pcMain = "parado"
    /\ argumento = "nenhum"
    /\ resposta = FALSE
    /\ codigoSaida = -1

-----------------------------------------------------------------------------
(* The listing on its own: any tree of at most MaxArquivos files. *)

NomesListar ==
    { <<"x", ".", "p", "d", "f">>,
      <<"x", ".", "P", "D", "F">>,
      <<"x", ".", "P", "d", "f">>,
      <<"X", ".", "p", "d", "f">>,
      <<"x", ".", "t", "x", "t">> }

DirsListar == { <<>>, << <<"s">> >>, << <<"S">> >> }

NosListar == {[dir |-> d, nome |-> n] : d \in DirsListar, n \in NomesListar}

\* A case-insensitive file system holds no two entries that differ in case only.
ArvorePossivel(arv, plat) ==
    plat = "windows" =>
        \A m, n \in arv :
            CaminhoNormalizado(Caminho(m)) = CaminhoNormalizado(Caminho(n)) => m = n

InitListar ==
    /\ plataforma \in {"posix", "windows"}
    /\ origemEhPasta \in BOOLEAN
    /\ arvore \in {a \in SUBSET NosListar : Cardinality(a) <= MaxArquivos}
    /\ origemEhPasta = FALSE => arvore = {}
    /\ ArvorePossivel(arvore, plataforma)
    /\ subpastas \in BOOLEAN
    /\ pcListar = "inicio"
    /\ arquivos = <<>>
    /\ AmbienteParado
    /\ LoteParado
    /\ ExtrairParado
    /\ LimparParado
    /\ MainParado

ChamarListar ==
    /\ pcListar = "inicio"
    /\ \E ordem \in OrdensDeLeitura({Caminho(n) : n \in arvore}) :
           arquivos' = Listar(origemEhPasta, ordem, subpastas, plataforma)
    /\ pcListar' = "fim"
    /\ UNCHANGED <<plataforma, origemEhPasta, arvore, subpastas>>
    /\ UNCHANGED <<varsAmbiente, varsLote, varsExtrair>>
    /\ UNCHANGED <<varsLimpar, varsMain>>

NextListar == ChamarListar

SpecListar == InitListar /\ [][NextListar]_vars

-----------------------------------------------------------------------------
(* The per-file job, as the batch runner sees it. *)

\* Path.resolve() of a file of the tree: the file itself, or the file a
\* symbolic link points to.  Of the resolved path the job uses the name (for
\* the stem of its outputs) and whether it exists.
Resolve(n) == [nome |-> n.real, existe |-> n.existe]

\* A dependency check that only warns about the optional capabilities.
VerificarDependenciasSoAviso(doc, gl, tess, ignorar) == doc

\* ExtrairPdf._verificar_dependencias: False without docling; False when an
\* optional capability is missing and ignorar_dependencias is False.
VerificarDependencias(doc, gl, tess, ignorar) ==
    IF ~doc THEN FALSE
    ELSE IF ~gl /\ ~ignorar THEN FALSE
    ELSE IF ~tess /\ ~ignorar THEN FALSE
    ELSE TRUE

\* ExtrairPdf.extrair, its return value: the file must exist, the dependency
\* check must pass, the converter must not raise and the Markdown must be
\* written; any exception inside the try block is caught and gives False.
ResultadoExtrair(existe, doc, gl, tess, ignorar, convFalha, escritaFalha) ==
    IF ~existe THEN FALSE
    ELSE IF ~VerificarDependencias(doc, gl, tess, ignorar) THEN FALSE
    ELSE IF convFalha \/ escritaFalha THEN FALSE
    ELSE TRUE

SufixoMd == <<".", "m", "d">>
SufixoLog == <<".", "l", "o", "g">>

\* A file below the destination root or the log root.
Local(raiz, dir, nome) == [raiz |-> raiz, dir |-> dir, nome |-> nome]

Existe(fs, loc) == \E f \in fs : f.local = loc

\* open(loc, 'w') and write: the file is created or replaced.
Escrever(fs, loc, conteudo) ==
    {f \in fs : f.local # loc} \cup {[local |-> loc, conteudo |-> conteudo]}

-----------------------------------------------------------------------------
(* ProcessarPasta *)

\* ProcessarPasta._calcular_destino: the directory of the file, re-rooted from
\* the source directory to the destination directory.  Every path the listing
\* returns lies below the source directory, so relative_to never raises.
CalcularDestino(p) == [raiz |-> "destino", dir |-> p.dir]

\* Lines 637-645: the log directory of a file.
CalcularPastaLog(p, separado) ==
    IF separado THEN [raiz |-> "log", dir |-> p.dir] ELSE CalcularDestino(p)

\* A strict mode that never halts the run.
FaltaDependenciaNunca(ignorar, gl, tess) == FALSE

\* Line 595: the strict-mode halt.
FaltaDependencia(ignorar, gl, tess) == ~ignorar /\ (~gl \/ ~tess)

\* Line 630: the skip test.
DeveIgnorar(fs, arquivoMd, sobrescreve) == Existe(fs, arquivoMd) /\ ~sobrescreve

\* ProcessarPasta._gerar_estatisticas
GerarEstatisticas(t) ==
    [processados |-> t.processados, sucesso |-> t.sucesso,
     falha |-> t.falha, ignorados |-> t.ignorados]

No(p) == CHOOSE n \in arvore : Caminho(n) = p

\* ProcessarPasta(...): a new object; its counters start at 0 (lines 512-516).
NovaExecucao ==
    /\ pcLote \in {"fim", "excecao"}
    /\ execucao < MaxExecucoes
    /\ pcLote' = "inicio"
    /\ execucao' = execucao + 1
    /\ anterior' = {[estatisticas |-> e, encontrados |-> Len(arquivos)] :
                        e \in estatisticas}
    /\ total' = Zeros
    /\ estatisticas' = SemEstatisticas
    /\ indice' = 0
    /\ arquivos' = <<>>
    /\ logGeralSalvo' = FALSE
    /\ tarefas' = <<>>
    /\ ignoradosExec' = <<>>
    /\ saidasInicio' = saidas
    /\ chamada' = 1
    /\ totalInicio' = Zeros
    /\ UNCHANGED <<plataforma, origemEhPasta, arvore, subpastas, pcListar>>
    /\ UNCHANGED <<sobrescrever, ignorarDependencias, logSeparado>>
    /\ UNCHANGED <<varsAmbiente, varsExtrair>>
    /\ UNCHANGED <<varsLimpar, varsMain>>

\* processar() called again on the same object: the counters are set in
\* __init__ only (lines 512-516) and processar never resets them, so the call
\* starts from the counts the object already holds.
ProcessarDeNovo ==
    /\ pcLote \in {"fim", "excecao"}
    /\ execucao < MaxExecucoes
    /\ pcLote' = "inicio"
    /\ execucao' = execucao + 1
    /\ anterior' = {[estatisticas |-> e, encontrados |-> Len(arquivos)] :
                        e \in estatisticas}
    /\ chamada' = chamada + 1
    /\ totalInicio' = total
    /\ estatisticas' = SemEstatisticas
    /\ indice' = 0
    /\ arquivos' = <<>>
    /\ logGeralSalvo' = FALSE
    /\ tarefas' = <<>>
    /\ ignoradosExec' = <<>>
    /\ saidasInicio' = saidas
    /\ UNCHANGED <<plataforma, origemEhPasta, arvore, subpastas, pcListar>>
    /\ UNCHANGED <<sobrescrever, ignorarDependencias, logSeparado, total>>
    /\ UNCHANGED <<varsAmbiente, varsExtrair>>
    /\ UNCHANGED <<varsLimpar, varsMain>>

\* processar, lines 575-614: the dependency report, the strict-mode halt, the
\* listing.
IniciarProcessar ==
    /\ pcLote = "inicio"
    /\ dicas' = execucao
    /\ IF FaltaDependencia(ignorarDependencias, libgl, tesseract)
       THEN /\ logGeralSalvo' = TRUE
            /\ estatisticas' = {GerarEstatisticas(total)}
            /\ pcLote' = "fim"
            /\ UNCHANGED <<arquivos, indice>>
       ELSE \E ordem \in OrdensDeLeitura({Caminho(n) : n \in arvore}) :
              LET lista == Listar(origemEhPasta, ordem, subpastas, plataforma)
              IN  /\ arquivos' = lista
                  /\ IF lista = <<>>
                     THEN /\ logGeralSalvo' = TRUE
                          /\ estatisticas' = {GerarEstatisticas(total)}
                          /\ pcLote' = "fim"
                          /\ indice' = 0
                     ELSE /\ pcLote' = "laco"
                          /\ indice' = 1
                          /\ UNCHANGED <<logGeralSalvo, estatisticas>>
    /\ UNCHANGED <<plataforma, origemEhPasta, arvore, subpastas, pcListar>>
    /\ UNCHANGED <<docling, libgl, tesseract, bloqueadas, saidas>>
    /\ UNCHANGED <<sobrescrever, ignorarDependencias, logSeparado, execucao, total,
                   tarefas, ignoradosExec, saidasInicio, anterior, chamada,
                   totalInicio>>
    /\ UNCHANGED varsExtrair
    /\ UNCHANGED <<varsLimpar, varsMain>>

Avancar == 
    /\ indice' = indice + 1
    /\ pcLote' = IF indice = Len(arquivos) THEN "resumo" ELSE "laco"

\* processar, lines 617-667: one file of the loop.
ProcessarArquivo ==
    /\ pcLote = "laco"
    /\ LET arquivoPdf == arquivos[indice]
           pastaDestinoArquivo == CalcularDestino(arquivoPdf)
           arquivoMd == Local(pastaDestinoArquivo.raiz, pastaDestinoArquivo.dir,
                              Stem(arquivoPdf.nome) \o SufixoMd)
           pastaLogArquivo == CalcularPastaLog(arquivoPdf, logSeparado)
           real == Resolve(No(arquivoPdf))
           jobMd == Local(pastaDestinoArquivo.raiz, pastaDestinoArquivo.dir,
                          Stem(real.nome) \o SufixoMd)
           jobLog == Local(pastaLogArquivo.raiz, pastaLogArquivo.dir,
                           Stem(real.nome) \o SufixoLog)
           batchLog == Local(pastaLogArquivo.raiz, pastaLogArquivo.dir,
                             Stem(arquivoPdf.nome) \o SufixoLog)
           conteudo == [de |-> arquivoPdf, execucao |-> execucao]
       IN
       IF pastaDestinoArquivo \in bloqueadas
       THEN \* line 624: mkdir raises outside the try block of the loop
            /\ pcLote' = "excecao"
            /\ UNCHANGED <<indice, total, saidas, tarefas, ignoradosExec>>
       ELSE IF DeveIgnorar(saidas, arquivoMd, sobrescrever)
       THEN \* lines 630-633
            /\ total' = [total EXCEPT !.ignorados = @ + 1]
            /\ ignoradosExec' = Append(ignoradosExec,
                                        [arquivo |-> arquivoPdf,
                                         md |-> {f \in saidas : f.local = arquivoMd},
                                         log |-> {f \in saidas : f.local = batchLog}])
            /\ Avancar
            /\ UNCHANGED <<saidas, tarefas>>
       ELSE IF pastaLogArquivo \in bloqueadas
       THEN \* ExtrairPdf.__init__, line 203: mkdir raises inside the try block
            /\ total' = [total EXCEPT !.processados = @ + 1, !.falha = @ + 1]
            /\ Avancar
            /\ UNCHANGED <<saidas, tarefas, ignoradosExec>>
       ELSE \E convFalha, escritaFalha \in BOOLEAN :
              LET sucesso == ResultadoExtrair(real.existe, docling, libgl, tesseract,
                                              ignorarDependencias, convFalha,
                                              escritaFalha)
                  comLog == Escrever(saidas, jobLog, conteudo)
              IN  /\ saidas' = IF sucesso THEN Escrever(comLog, jobMd, conteudo)
                               ELSE comLog
                  /\ tarefas' = Append(tarefas,
                                       [arquivo |-> arquivoPdf, esperado |-> arquivoMd,
                                        md |-> jobMd, log |-> jobLog,
                                        sucesso |-> sucesso])
                  /\ total' = IF sucesso
                              THEN [total EXCEPT !.processados = @ + 1,
                                                 !.sucesso = @ + 1]
                              ELSE [total EXCEPT !.processados = @ + 1,
                                                 !.falha = @ + 1]
                  /\ Avancar
                  /\ UNCHANGED ignoradosExec
    /\ UNCHANGED <<plataforma, origemEhPasta, arvore, subpastas, pcListar, arquivos>>
    /\ UNCHANGED <<docling, libgl, tesseract, bloqueadas, dicas>>
    /\ UNCHANGED <<sobrescrever, ignorarDependencias, logSeparado, execucao,
                   estatisticas, logGeralSalvo, saidasInicio, anterior, chamada,
                   totalInicio>>
    /\ UNCHANGED varsExtrair
    /\ UNCHANGED <<varsLimpar, varsMain>>

\* processar, lines 669-680: the summary and the statistics returned.
Resumo ==
    /\ pcLote = "resumo"
    /\ logGeralSalvo' = TRUE
    /\ estatisticas' = {GerarEstatisticas(total)}
    /\ pcLote' = "fim"
    /\ UNCHANGED <<varsListar, varsAmbiente, varsExtrair>>
    /\ UNCHANGED <<varsLimpar, varsMain>>
    /\ UNCHANGED <<sobrescrever, ignorarDependencias, logSeparado, execucao, indice,
                   total, tarefas, ignoradosExec, saidasInicio, anterior, chamada,
                   totalInicio>>

\* The trees of the batch runs: regular files, a symbolic link to a PDF
\* outside the tree, and a symbolic link whose target is gone.
A_PDF == <<"a", ".", "p", "d", "f">>
X_PDF == <<"x", ".", "p", "d", "f">>
SubDir == << <<"s">> >>

NosLote ==
    { [dir |-> <<>>,   nome |-> A_PDF, real |-> A_PDF, existe |-> TRUE],
      [dir |-> <<>>,   nome |-> A_PDF, real |-> X_PDF, existe |-> TRUE],
      [dir |-> <<>>,   nome |-> A_PDF, real |-> A_PDF, existe |-> FALSE],
      [dir |-> <<>>,   nome |-> X_PDF, real |-> X_PDF, existe |-> TRUE],
      [dir |-> <<>>,   nome |-> X_PDF, real |-> A_PDF, existe |-> TRUE],
      [dir |-> SubDir, nome |-> A_PDF, real |-> A_PDF, existe |-> TRUE] }

\* The subdirectories mkdir may be unable to create.
PastasBloqueaveis == {[raiz |-> "destino", dir |-> SubDir], [raiz |-> "log", dir |-> SubDir]}

InitLote ==
    /\ plataforma = "posix"
    /\ origemEhPasta = TRUE
    /\ arvore \in {a \in SUBSET NosLote :
                     /\ Cardinality(a) <= MaxArquivos
                     /\ \A m, n \in a : Caminho(m) = Caminho(n) => m = n}
    /\ subpastas \in BOOLEAN
    /\ pcListar = "parado"
    /\ arquivos = <<>>
    /\ docling \in BOOLEAN
    /\ libgl \in BOOLEAN
    /\ tesseract \in BOOLEAN
    /\ sobrescrever \in BOOLEAN
    /\ ignorarDependencias \in BOOLEAN
    /\ logSeparado \in BOOLEAN
    /\ bloqueadas \in {b \in SUBSET PastasBloqueaveis :
                         \A d \in b : d.raiz = "log" => logSeparado}
    /\ saidas = {}
    /\ dicas = 0
    /\ pcLote = "inicio"
    /\ execucao = 1
    /\ indice = 0
    /\ total = Zeros
    /\ estatisticas = SemEstatisticas
    /\ logGeralSalvo = FALSE
    /\ tarefas = <<>>
    /\ ignoradosExec = <<>>
    /\ saidasInicio = {}
    /\ anterior = SemEstatisticas
    /\ chamada = 1
    /\ totalInicio = Zeros
    /\ ExtrairParado
    /\ LimparParado
    /\ MainParado

NextLote ==
    NovaExecucao \/ ProcessarDeNovo \/ IniciarProcessar \/ ProcessarArquivo \/ Resumo

SpecLote == InitLote /\ [][NextLote]_vars

-----------------------------------------------------------------------------
(* ExtrairPdf: the Markdown of a document.  A text is a sequence of symbols: *)
(* a character, or a tag the code has put in the text, taken as one symbol.  *)
(* A tag, "<PAGINA:nnn>" or "<IMAGEM:nnn>", starts with "<", ends with ">"   *)
(* and holds no blank, no bracket, no parenthesis and no repeated            *)
(* punctuation.  The empty string is the empty sequence.                     *)

\* Line 377: f"<PAGINA:{num_pagina:03d}>"
TagsDePagina ==
    <<"<PAGINA:001>", "<PAGINA:002>", "<PAGINA:003>", "<PAGINA:004>", "<PAGINA:005>",
      "<PAGINA:006>">>

\* Lines 275 and 354: f"<IMAGEM:{self.contador_imagens:03d}>"
TagsDeImagem ==
    <<"<IMAGEM:001>", "<IMAGEM:002>", "<IMAGEM:003>", "<IMAGEM:004>", "<IMAGEM:005>",
      "<IMAGEM:006>", "<IMAGEM:007>", "<IMAGEM:008>", "<IMAGEM:009>", "<IMAGEM:010>",
      "<IMAGEM:011>", "<IMAGEM:012>">>

PaginaTag(n) == TagsDePagina[n]
ImagemTag(n) == TagsDeImagem[n]

PaginaTags == {TagsDePagina[n] : n \in DOMAIN TagsDePagina}
ImagemTags == {TagsDeImagem[n] : n \in DOMAIN TagsDeImagem}

EhPaginaTag(x) == x \in PaginaTags
EhImagemTag(x) == x \in ImagemTags
EhTag(x) == EhPaginaTag(x) \/ EhImagemTag(x)

\* The number nnn of a tag.
NumeroDaTag(x) ==
    IF EhPaginaTag(x) THEN CHOOSE n \in DOMAIN TagsDePagina : TagsDePagina[n] = x
    ELSE CHOOSE n \in DOMAIN TagsDeImagem : TagsDeImagem[n] = x

NL == "\n"

\* Lines 274-275 and 353-354: self.contador_imagens += 1, and the number of
\* the tag is the new value.  emitidas keeps the numbers in the order in which
\* they were issued.
SemImagens == [contador |-> 0, emitidas |-> <<>>]

\* A counter that issues a number without counting it.
EmitirSemContar(im) ==
    [contador |-> im.contador, emitidas |-> Append(im.emitidas, im.contador + 1)]

Emitir(im) ==
    [contador |-> im.contador + 1, emitidas |-> Append(im.emitidas, im.contador + 1)]

\* The tag an increment has just issued.
UltimaTag(im) == ImagemTag(im.emitidas[Len(im.emitidas)])

\* The patterns of _substituir_imagens_markdown (lines 264-271).  Each is a
\* sequence of elements: a literal character, or a run [^c]* (min = 0) or
\* [^c]+ (min = 1) followed by the character c.
Lit(c) == [k |-> "lit", c |-> c, min |-> 0]
Ate(c, min) == [k |-> "ate", c |-> c, min |-> min]

\* r'!\[([^\]]*)\]\([^\)]+\)'
PadraoMarkdown == <<Lit("!"), Lit("["), Ate("]", 0), Lit("("), Ate(")", 1)>>
\* r'<img[^>]*>'
PadraoImg == <<Lit("<"), Lit("i"), Lit("m"), Lit("g"), Ate(">", 0)>>
\* r'\[image[^\]]*\]'
PadraoImage == <<Lit("["), Lit("i"), Lit("m"), Lit("a"), Lit("g"), Lit("e"), Ate("]", 0)>>
\* r'\[figure[^\]]*\]'
PadraoFigure ==
    <<Lit("["), Lit("f"), Lit("i"), Lit("g"), Lit("u"), Lit("r"), Lit("e"), Ate("]", 0)>>
\* r'\[figura[^\]]*\]'
PadraoFigura ==
    <<Lit("["), Lit("f"), Lit("i"), Lit("g"), Lit("u"), Lit("r"), Lit("a"), Ate("]", 0)>>
\* r'\[imagem[^\]]*\]'
PadraoImagem ==
    <<Lit("["), Lit("i"), Lit("m"), Lit("a"), Lit("g"), Lit("e"), Lit("m"), Ate("]", 0)>>

Padroes ==
    <<PadraoMarkdown, PadraoImg, PadraoImage, PadraoFigure, PadraoFigura, PadraoImagem>>

\* flags=re.IGNORECASE: the letters of the texts of this model, lower-cased.
Minuscula(c) ==
    CASE c = "I" -> "i"
      [] c = "M" -> "m"
      [] c = "G" -> "g"
      [] c = "A" -> "a"
      [] c = "E" -> "e"
      [] OTHER -> c

\* The symbol matches the literal character c, a lower-case letter or a
\* sign, whatever its case.  No character of a tag is
\* matched as a literal of a pattern: a tag holds no "!", "[", "]", "(" or
\* ")", and after its "<" comes "IMA" or "PAG", never "img".
CasaLiteral(x, c) == x = c \/ Minuscula(x) = c

\* The symbol ends a run [^c]*: the character c, or, for c = ">", a tag,
\* whose last character is ">" (the run takes the characters before it).
TerminaTrecho(x, c) == x = c \/ (c = ">" /\ EhTag(x))

\* The position of the character that ends the run [^c]{min,} starting at i,
\* n symbols of the run being already taken; 0 when there is none.  The run
\* excludes the character that follows it, so the greedy match is the only
\* one.
RECURSIVE FimDoTrecho(_, _, _, _, _)
FimDoTrecho(texto, i, c, min, n) ==
    IF i > Len(texto) THEN 0
    ELSE IF TerminaTrecho(texto[i], c)
    THEN (IF n >= min \/ EhTag(texto[i]) THEN i ELSE 0)
    ELSE FimDoTrecho(texto, i + 1, c, min, n + 1)

\* The last position of the match of elements k.. of the pattern at position
\* i of the text; 0 when the pattern does not match there.
RECURSIVE CasaEm(_, _, _, _)
CasaEm(texto, i, padrao, k) ==
    IF k > Len(padrao) THEN i - 1
    ELSE IF padrao[k].k = "lit"
    THEN (IF i <= Len(texto) /\ CasaLiteral(texto[i], padrao[k].c)
          THEN CasaEm(texto, i + 1, padrao, k + 1)
          ELSE 0)
    ELSE LET f == FimDoTrecho(texto, i, padrao[k].c, padrao[k].min, 0)
         IN  IF f = 0 THEN 0 ELSE CasaEm(texto, f + 1, padrao, k + 1)

\* The first position from i at which the pattern matches; 0 when it matches
\* nowhere.
RECURSIVE PrimeiraCasa(_, _, _)
PrimeiraCasa(texto, i, padrao) ==
    IF i > Len(texto) THEN 0
    ELSE IF CasaEm(texto, i, padrao, 1) > 0 THEN i
    ELSE PrimeiraCasa(texto, i + 1, padrao)

\* Line 279, re.sub of one pattern: the text is scanned from left to right
\* and every match is replaced by the next image tag, the scan going on after
\* the match.
RECURSIVE SubstituirDesde(_, _, _, _)
SubstituirDesde(texto, i, padrao, im) ==
    LET j == PrimeiraCasa(texto, i, padrao)
    IN  IF j = 0 THEN [texto |-> SubSeq(texto, i, Len(texto)), imagens |-> im]
        ELSE LET e == Emitir(im)
                 r == SubstituirDesde(texto, CasaEm(texto, j, padrao, 1) + 1, padrao, e)
             IN  [texto |-> SubSeq(texto, i, j - 1) \o <<UltimaTag(e)>> \o r.texto,
                  imagens |-> r.imagens]

SubstituirPadrao(texto, padrao, im) == SubstituirDesde(texto, 1, padrao, im)

\* ExtrairPdf._substituir_imagens_markdown: one pattern after the other, each
\* over the text the pattern before it has left.
RECURSIVE SubstituirImagensDe(_, _, _)
SubstituirImagensDe(texto, k, im) ==
    IF k > Len(Padroes) THEN [texto |-> texto, imagens |-> im]
    ELSE LET r == SubstituirPadrao(texto, Padroes[k], im)
         IN  SubstituirImagensDe(r.texto, k + 1, r.imagens)

SubstituirImagensMarkdown(texto, im) == SubstituirImagensDe(texto, 1, im)

\* Lines 340-345: the page of an item; pagina = 0 stands for an item with no
\* page_no, which goes to page 1.
NumPagina(item) == IF item.pagina = 0 THEN 1 ELSE item.pagina

\* Lines 366-367 and 362-363: item.text when the item has a text that is not
\* empty, else the empty content.
TextoDoItem(item) == item.text

\* Lines 351-365: the content of an item and the counter after it.  An item
\* has: tipo, "picture" or "texto"; exporta, whether it has export_to_markdown;
\* comDoc, what export_to_markdown(documento) does ("ok", "TypeError" or
\* "erro", any other exception); semDoc, what export_to_markdown() does ("ok"
\* or "erro"); markdown, what a successful export returns; text, its plain
\* text.  Only a TypeError of the first call is handled; any other exception
\* leaves the loop.
ConteudoItem(item, im) ==
    IF item.tipo = "picture"
    THEN LET e == Emitir(im)
         IN  [conteudo |-> <<UltimaTag(e)>>, imagens |-> e, levantou |-> FALSE]
    ELSE IF ~item.exporta
    THEN [conteudo |-> TextoDoItem(item), imagens |-> im, levantou |-> FALSE]
    ELSE IF item.comDoc = "ok"
    THEN [conteudo |-> item.markdown, imagens |-> im, levantou |-> FALSE]
    ELSE IF item.comDoc = "TypeError"
    THEN [conteudo |-> IF item.semDoc = "ok" THEN item.markdown ELSE TextoDoItem(item),
          imagens |-> im, levantou |-> FALSE]
    ELSE [conteudo |-> <<>>, imagens |-> im, levantou |-> TRUE]

\* Lines 367-370: paginas_conteudo[num].append(conteudo); a new key goes last.
AdicionarConteudo(pags, num, conteudo) ==
    IF \E i \in 1..Len(pags) : pags[i].pagina = num
    THEN [i \in 1..Len(pags) |->
             IF pags[i].pagina = num
             THEN [pags[i] EXCEPT !.conteudos = Append(@, conteudo)]
             ELSE pags[i]]
    ELSE Append(pags, [pagina |-> num, conteudos |-> <<conteudo>>])

\* Lines 338-370: the loop over the items, up to the item whose export raises.
RECURSIVE AgruparItens(_, _, _)
AgruparItens(its, pags, im) ==
    IF its = <<>> THEN [paginas |-> pags, imagens |-> im, levantou |-> FALSE]
    ELSE LET c == ConteudoItem(Head(its), im)
         IN  IF c.levantou
             THEN [paginas |-> pags, imagens |-> c.imagens, levantou |-> TRUE]
             ELSE AgruparItens(Tail(its),
                               IF c.conteudo # <<>>
                               THEN AdicionarConteudo(pags, NumPagina(Head(its)),
                                                      c.conteudo)
                               ELSE pags,
                               c.imagens)

\* '\n\n'.join(conteudos)
RECURSIVE Juntar(_)
Juntar(conteudos) ==
    IF conteudos = <<>> THEN <<>>
    ELSE IF Len(conteudos) = 1 THEN Head(conteudos)
    ELSE Head(conteudos) \o <<NL, NL>> \o Juntar(Tail(conteudos))

\* sorted() of numbers.
RECURSIVE InserirNumero(_, _)
InserirNumero(n, s) ==
    IF s = <<>> THEN <<n>>
    ELSE IF n < Head(s) THEN <<n>> \o s
    ELSE <<Head(s)>> \o InserirNumero(n, Tail(s))

RECURSIVE SortedNumeros(_)
SortedNumeros(s) ==
    IF s = <<>> THEN <<>>
    ELSE InserirNumero(s[Len(s)], SortedNumeros(SubSeq(s, 1, Len(s) - 1)))

\* The keys of paginas_conteudo as the dictionary holds them.
PaginasNaOrdemDeChegada(pags) == [i \in 1..Len(pags) |-> pags[i].pagina]

\* Line 376: sorted(paginas_conteudo.keys())
PaginasOrdenadas(pags) == SortedNumeros([i \in 1..Len(pags) |-> pags[i].pagina])

ConteudosDe(pags, num) == (CHOOSE e \in {pags[i] : i \in 1..Len(pags)} : e.pagina = num).conteudos

\* Lines 376-382: for each page a line break, the page tag, two line breaks,
\* the contents of the page after the image substitution, and a line break.
RECURSIVE MontarPaginas(_, _, _, _)
MontarPaginas(pags, nums, markdown, im) ==
    IF nums = <<>> THEN [markdown |-> markdown, imagens |-> im]
    ELSE LET r == SubstituirImagensMarkdown(Juntar(ConteudosDe(pags, Head(nums))), im)
         IN  MontarPaginas(pags, Tail(nums),
                           markdown \o <<NL, PaginaTag(Head(nums)), NL, NL>>
                                    \o r.texto \o <<NL>>,
                           r.imagens)

\* Lines 383-387: the whole-document export under one page tag, the page tag
\* going through the image substitution with it.
MontarCompleto(completo, im) ==
    LET r == SubstituirImagensMarkdown(<<PaginaTag(1), NL, NL>> \o completo, im)
    IN  [markdown |-> r.texto, imagens |-> r.imagens]

\* An assembly with no fallback: no page, no text.
MontarSemCompleto(pags, completo, im) ==
    MontarPaginas(pags, PaginasOrdenadas(pags), <<>>, im)

\* Lines 372-387: the pages in ascending order, or the whole-document export
\* when no page has content.
MontarMarkdown(pags, completo, im) ==
    IF pags # <<>>
    THEN MontarPaginas(pags, PaginasOrdenadas(pags), <<>>, im)
    ELSE MontarCompleto(completo, im)

\* Line 401: num_paginas
NumPaginas(pags) == IF pags # <<>> THEN Len(pags) ELSE 1

-----------------------------------------------------------------------------
(* limpar_texto *)

\* Line 162: the horizontal blanks.
Brancos == {" ", "\t"}

\* str.strip(): the white space of the texts of this model.
Espacos == {" ", "\t", "\n"}

\* RE_LIMPEZA_REPETICAO, line 158: the characters whose repetitions are
\* collapsed.
Pontuacao == {".", ",", ";", "+", "-", "_", "?", "!", ":", "(", ")", "[", "]",
              "{", "}", "|", "@", "#", "$", "%", "^", "&", "*", "=", "~", "`", "'"}

\* The symbol is a character of the set; a tag is not.
CharEm(x, conjunto) == x \in conjunto

\* The text without its leading characters of a set.
RECURSIVE PularIniciais(_, _)
PularIniciais(s, conjunto) ==
    IF s # <<>> /\ CharEm(Head(s), conjunto) THEN PularIniciais(Tail(s), conjunto) ELSE s

\* The number of leading characters of a set.
Iniciais(s, conjunto) == Len(s) - Len(PularIniciais(s, conjunto))

\* Line 162: re.sub(r'[ \t]+', ' ', texto)
RECURSIVE ColapsarBrancos(_)
ColapsarBrancos(s) ==
    IF s = <<>> THEN <<>>
    ELSE IF CharEm(Head(s), Brancos)
    THEN <<" ">> \o ColapsarBrancos(PularIniciais(Tail(s), Brancos))
    ELSE <<Head(s)>> \o ColapsarBrancos(Tail(s))

\* Line 164: re.sub(r'\n{3,}', '\n\n', texto)
RECURSIVE LimitarQuebras(_)
LimitarQuebras(s) ==
    IF s = <<>> THEN <<>>
    ELSE IF Iniciais(s, {"\n"}) >= 3
    THEN <<NL, NL>> \o LimitarQuebras(PularIniciais(s, {"\n"}))
    ELSE <<Head(s)>> \o LimitarQuebras(Tail(s))

\* A collapse that drops one character of each repetition.
RECURSIVE ColapsarUmaRepeticao(_)
ColapsarUmaRepeticao(s) ==
    IF s = <<>> THEN <<>>
    ELSE IF CharEm(Head(s), Pontuacao) /\ Iniciais(Tail(s), {Head(s)}) >= 1
    THEN <<Head(s)>> \o ColapsarUmaRepeticao(Tail(Tail(s)))
    ELSE <<Head(s)>> \o ColapsarUmaRepeticao(Tail(s))

\* Line 166: RE_LIMPEZA_REPETICAO.sub(r'\1', texto)
RECURSIVE ColapsarRepeticao(_)
ColapsarRepeticao(s) ==
    IF s = <<>> THEN <<>>
    ELSE IF CharEm(Head(s), Pontuacao)
    THEN <<Head(s)>> \o ColapsarRepeticao(PularIniciais(Tail(s), {Head(s)}))
    ELSE <<Head(s)>> \o ColapsarRepeticao(Tail(s))

\* The text without its trailing white space.
RECURSIVE PularFinais(_)
PularFinais(s) ==
    IF s # <<>> /\ CharEm(s[Len(s)], Espacos)
    THEN PularFinais(SubSeq(s, 1, Len(s) - 1))
    ELSE s

\* Line 167: texto.strip()
Strip(s) == PularFinais(PularIniciais(s, Espacos))

\* limpar_texto
LimparTexto(texto) == Strip(ColapsarRepeticao(LimitarQuebras(ColapsarBrancos(texto))))

-----------------------------------------------------------------------------
(* ExtrairPdf.extrair *)

\* A try block with no handler: the exception leaves extrair.
PropagarExcecao(log) == [log |-> log, salvar |-> FALSE, retorno |-> "excecao"]

\* Lines 412-417: an exception inside the try block is logged, the log is
\* saved and extrair returns False.
TratarExcecao(log) ==
    [log |-> log \o <<"ERRO durante extracao", "Traceback">>,
     salvar |-> TRUE, retorno |-> "False"]

\* Lines 231-257: what _verificar_dependencias adds to the log.
LogDependencias(doc, gl, tess, ignorar) ==
    IF ~doc THEN <<"ERRO CRITICO: docling", "Instale com">>
    ELSE <<"Informacoes do ambiente">>
         \o (IF ~gl THEN <<"AVISO: libGL">> ELSE <<>>)
         \o (IF ~gl /\ ~ignorar THEN <<"ERRO: Dependencia opcional">>
             ELSE (IF ~tess THEN <<"AVISO: Tesseract">> ELSE <<>>)
                  \o (IF ~tess /\ ~ignorar THEN <<"ERRO: Dependencia opcional">>
                      ELSE <<>>))

\* The lines of a log as the content of a file.
LinhasLog(log) == log

\* The outputs of the job: the document is a.pdf, its outputs go to the
\* directory of the document.
MdDoJob == Local("destino", <<>>, Stem(A_PDF) \o SufixoMd)
LogDoJob == Local("destino", <<>>, Stem(A_PDF) \o SufixoLog)

\* An item whose export_to_markdown(documento) returns its Markdown.
ItemTexto(pg, markdown) ==
    [pagina |-> pg, tipo |-> "texto", exporta |-> TRUE, comDoc |-> "ok",
     semDoc |-> "ok", markdown |-> markdown, text |-> <<>>]

ItemPicture(pg) ==
    [pagina |-> pg, tipo |-> "picture", exporta |-> FALSE, comDoc |-> "ok",
     semDoc |-> "ok", markdown |-> <<>>, text |-> <<>>]

\* The Markdown of the text items: a text with repeated punctuation, and a
\* text with an image reference inside a bracketed image note.
MarkdownSimples == <<"a", ".", ".">>
MarkdownComImagem ==
    <<"b", "[", "I", "m", "a", "g", "e", " ", "!", "[", "i", "]", "(", "u", ")", "]">>

\* The items the converter may yield.  On any numbered page: a picture or a
\* plain text.  On page 1: a text with an image reference.  With no page_no:
\* a text whose Markdown is empty, a text whose export_to_markdown raises
\* TypeError with and without the document and that has a plain text, and a
\* text whose export_to_markdown raises another exception.
ItensPossiveis ==
    {ItemPicture(pg) : pg \in 1..MaxPagina}
    \cup {ItemTexto(pg, MarkdownSimples) : pg \in 1..MaxPagina}
    \cup {ItemTexto(1, MarkdownComImagem),
          ItemTexto(0, <<>>),
          [ItemTexto(0, <<>>) EXCEPT !.comDoc = "TypeError", !.semDoc = "erro",
                                     !.text = <<"c">>],
          [ItemTexto(0, MarkdownSimples) EXCEPT !.comDoc = "erro"]}

\* The streams of at most MaxItens items.  The loop reads no item after the
\* one whose export raises: such an item is the last of its stream.
Fluxos ==
    {f \in UNION {[1..n -> ItensPossiveis] : n \in 0..MaxItens} :
        \A i \in 1..Len(f) : f[i].comDoc = "erro" => i = Len(f)}

\* The whole-document exports of the converter (used only when no page has
\* content).
Exportacoes ==
    {<<>>,
     <<" ", "a", " ", " ", "a", "\n", "\n", "\n", "\n">>,
     <<"a", "!", "!", "[", "i", "m", "a", "g", "e", "]">>,
     <<"<", "i", "m", "g", " ", "[", "f", "i", "g", "u", "r", "a", "]", ">">>}

SalvarLog(fs, log) == Escrever(fs, LogDoJob, LinhasLog(log))

\* extrair, lines 288-294.
VerificarArquivo ==
    /\ pcExtrair = "existe"
    /\ IF ~arquivoExiste
       THEN /\ logExtrair' = logExtrair \o <<"Iniciando extracao", "ERRO: Arquivo nao encontrado">>
            /\ logExtrairSalvo' = TRUE
            /\ saidas' = SalvarLog(saidas, logExtrair')
            /\ retorno' = "False"
            /\ pcExtrair' = "fim"
       ELSE /\ logExtrair' = Append(logExtrair, "Iniciando extracao")
            /\ pcExtrair' = "dependencias"
            /\ UNCHANGED <<logExtrairSalvo, saidas, retorno>>
    /\ UNCHANGED <<arquivoExiste, converterChamado, converterFalhou, itens,
                   exportacao, paginasConteudo, contadorImagens, emitidas,
                   markdownFinal, numPaginas>>
    /\ UNCHANGED <<docling, libgl, tesseract, bloqueadas, dicas>>
    /\ UNCHANGED <<varsListar, varsLote, varsLimpar, varsMain>>

\* extrair, lines 296-299, and _verificar_dependencias.
ChecarDependencias ==
    /\ pcExtrair = "dependencias"
    /\ logExtrair' = logExtrair \o LogDependencias(docling, libgl, tesseract,
                                                   ignorarDependencias)
    /\ dicas' = IF docling THEN 1 ELSE dicas
    /\ IF ~VerificarDependencias(docling, libgl, tesseract, ignorarDependencias)
       THEN /\ logExtrairSalvo' = TRUE
            /\ saidas' = SalvarLog(saidas, logExtrair')
            /\ retorno' = "False"
            /\ pcExtrair' = "fim"
       ELSE /\ pcExtrair' = "converter"
            /\ UNCHANGED <<logExtrairSalvo, saidas, retorno>>
    /\ UNCHANGED <<arquivoExiste, converterChamado, converterFalhou, itens,
                   exportacao, paginasConteudo, contadorImagens, emitidas,
                   markdownFinal, numPaginas>>
    /\ UNCHANGED <<docling, libgl, tesseract, bloqueadas>>
    /\ UNCHANGED <<varsListar, varsLote, varsLimpar, varsMain>>

\* extrair, lines 301-330: the converter is built and called; it may raise.
Converter ==
    /\ pcExtrair = "converter"
    /\ converterChamado' = converterChamado + 1
    /\ \E levantou \in BOOLEAN :
          LET log == logExtrair \o <<"Inicializando DocumentConverter">>
                     \o (IF tesseract THEN <<"OCR habilitado">> ELSE <<>>)
                     \o (IF libgl THEN <<"Deteccao de tabelas habilitada">> ELSE <<>>)
                     \o <<"Convertendo documento">>
              e == TratarExcecao(log)
          IN  /\ converterFalhou' = levantou
              /\ IF levantou
                 THEN /\ logExtrair' = e.log
                      /\ logExtrairSalvo' = e.salvar
                      /\ saidas' = IF e.salvar THEN SalvarLog(saidas, e.log) ELSE saidas
                      /\ retorno' = e.retorno
                      /\ pcExtrair' = "fim"
                 ELSE /\ logExtrair' = log
                      /\ pcExtrair' = "montar"
                      /\ UNCHANGED <<logExtrairSalvo, saidas, retorno>>
    /\ UNCHANGED <<arquivoExiste, itens, exportacao, paginasConteudo, contadorImagens,
                   emitidas, markdownFinal, numPaginas>>
    /\ UNCHANGED <<docling, libgl, tesseract, bloqueadas, dicas>>
    /\ UNCHANGED <<varsListar, varsLote, varsLimpar, varsMain>>

\* extrair, lines 332-391: the items are grouped by page, the Markdown is
\* put together and cleaned.  An exception of the loop (an item whose export
\* raises) goes to the handler of lines 412-417.
Montar ==
    /\ pcExtrair = "montar"
    /\ \E its \in Fluxos :
         LET g == AgruparItens(its, <<>>,
                               [contador |-> contadorImagens, emitidas |-> emitidas])
         IN  /\ itens' = its
             /\ IF g.levantou
                THEN LET e == TratarExcecao(Append(logExtrair, "Processando paginas"))
                     IN  /\ logExtrair' = e.log
                         /\ logExtrairSalvo' = e.salvar
                         /\ saidas' = IF e.salvar THEN SalvarLog(saidas, e.log)
                                      ELSE saidas
                         /\ retorno' = e.retorno
                         /\ pcExtrair' = "fim"
                         /\ contadorImagens' = g.imagens.contador
                         /\ emitidas' = g.imagens.emitidas
                         /\ UNCHANGED <<exportacao, paginasConteudo, markdownFinal>>
                ELSE \E exp \in IF g.paginas = <<>> THEN Exportacoes ELSE {<<>>} :
                       LET m == MontarMarkdown(g.paginas, exp, g.imagens)
                       IN  /\ exportacao' = exp
                           /\ paginasConteudo' = g.paginas
                           /\ markdownFinal' = LimparTexto(m.markdown)
                           /\ contadorImagens' = m.imagens.contador
                           /\ emitidas' = m.imagens.emitidas
                           /\ logExtrair' = logExtrair \o <<"Processando paginas">>
                                              \o (IF g.paginas = <<>>
                                                  THEN <<"Aviso: usando markdown completo">>
                                                  ELSE <<>>)
                                              \o <<"Aplicando limpeza de texto">>
                           /\ pcExtrair' = "gravar"
                           /\ UNCHANGED <<logExtrairSalvo, saidas, retorno>>
    /\ UNCHANGED <<arquivoExiste, converterChamado, converterFalhou, numPaginas>>
    /\ UNCHANGED <<docling, libgl, tesseract, bloqueadas, dicas>>
    /\ UNCHANGED <<varsListar, varsLote, varsLimpar, varsMain>>

\* extrair, lines 393-410: the Markdown is written, stripped once more, and
\* the numbers of the job are logged; open() or write() may raise.
Gravar ==
    /\ pcExtrair = "gravar"
    /\ \E levantou \in BOOLEAN :
          LET log == Append(logExtrair, "Salvando markdown")
              e == TratarExcecao(log)
              ok == log \o <<"Extracao concluida com sucesso", "Paginas", "Imagens",
                             "Caracteres", "Palavras">>
          IN  IF levantou
              THEN /\ logExtrair' = e.log
                   /\ logExtrairSalvo' = e.salvar
                   /\ saidas' = IF e.salvar THEN SalvarLog(saidas, e.log) ELSE saidas
                   /\ retorno' = e.retorno
                   /\ UNCHANGED numPaginas
              ELSE /\ logExtrair' = ok
                   /\ logExtrairSalvo' = TRUE
                   /\ saidas' = SalvarLog(Escrever(saidas, MdDoJob, Strip(markdownFinal)),
                                          ok)
                   /\ numPaginas' = NumPaginas(paginasConteudo)
                   /\ retorno' = "True"
    /\ pcExtrair' = "fim"
    /\ UNCHANGED <<arquivoExiste, converterChamado, converterFalhou, itens, exportacao,
                   paginasConteudo, contadorImagens, emitidas, markdownFinal>>
    /\ UNCHANGED <<docling, libgl, tesseract, bloqueadas, dicas>>
    /\ UNCHANGED <<varsListar, varsLote, varsLimpar, varsMain>>

\* ExtrairPdf(arquivo_pdf): a new job, in any environment.
InitExtrair ==
    /\ plataforma = "posix"
    /\ origemEhPasta = TRUE
    /\ arvore = {}
    /\ subpastas = TRUE
    /\ pcListar = "parado"
    /\ arquivos = <<>>
    /\ docling \in BOOLEAN
    /\ libgl \in BOOLEAN
    /\ tesseract \in BOOLEAN
    /\ bloqueadas = {}
    /\ saidas = {}
    /\ dicas = 0
    /\ sobrescrever = FALSE
    /\ ignorarDependencias \in BOOLEAN
    /\ logSeparado = FALSE
    /\ pcLote = "parado"
    /\ execucao = 0
    /\ indice = 0
    /\ total = Zeros
    /\ estatisticas = SemEstatisticas
    /\ logGeralSalvo = FALSE
    /\ tarefas = <<>>
    /\ ignoradosExec = <<>>
    /\ saidasInicio = {}
    /\ anterior = SemEstatisticas
    /\ chamada = 0
    /\ totalInicio = Zeros
    /\ pcExtrair = "existe"
    /\ arquivoExiste \in BOOLEAN
    /\ logExtrair = <<>>
    /\ logExtrairSalvo = FALSE
    /\ converterChamado = 0
    /\ converterFalhou = FALSE
    /\ itens = <<>>
    /\ paginasConteudo = <<>>
    /\ contadorImagens = 0
    /\ markdownFinal = <<>>
    /\ retorno = "pendente"
    /\ numPaginas = 0
    /\ exportacao = <<>>
    /\ emitidas = <<>>
    /\ LimparParado
    /\ MainParado

NextExtrair == VerificarArquivo \/ ChecarDependencias \/ Converter \/ Montar \/ Gravar

SpecExtrair == InitExtrair /\ [][NextExtrair]_vars

-----------------------------------------------------------------------------
(* limpar_texto applied to a text, and again to its own result. *)

\* The characters of the texts: the two horizontal blanks, the line break,
\* two punctuation signs and a letter.
Alfabeto == {" ", "\t", "\n", ".", "!", "a"}

TextosPossiveis == UNION {[1..n -> Alfabeto] : n \in 0..MaxTexto}

InitLimpar ==
    /\ plataforma = "posix"
    /\ origemEhPasta = TRUE
    /\ arvore = {}
    /\ subpastas = TRUE
    /\ pcListar = "parado"
    /\ arquivos = <<>>
    /\ AmbienteParado
    /\ LoteParado
    /\ ExtrairParado
    /\ MainParado
    /\ entrada \in TextosPossiveis
    /\ limpos = <<>>

\* limpar_texto(x), then limpar_texto of what it returned.
AplicarLimpar ==
    /\ Len(limpos) < 2
    /\ limpos' = Append(limpos, LimparTexto(IF limpos = <<>> THEN entrada
                                            ELSE limpos[Len(limpos)]))
    /\ UNCHANGED entrada
    /\ UNCHANGED <<varsListar, varsAmbiente, varsLote, varsExtrair, varsMain>>

NextLimpar == AplicarLimpar

SpecLimpar == InitLimpar /\ [][NextLimpar]_vars

-----------------------------------------------------------------------------
(* The program run from the command line (lines 763-819). *)

\* What sys.argv holds: no argument; the path of a file that exists and ends
\* in .pdf; a path that ends in .pdf and is no file; the path of a .yaml file
\* that exists; a path that ends in .yaml and is no file; any other path.
Argumentos == {"nenhum", "pdf", "pdfAusente", "yaml", "yamlAusente", "outro"}

\* The statistics a batch run may return.
EstatisticasPossiveis ==
    {[processados |-> su + fa, sucesso |-> su, falha |-> fa, ignorados |-> ig] :
        su \in 0..MaxArquivos, fa \in 0..MaxArquivos, ig \in 0..MaxArquivos}

InitMain ==
    /\ plataforma = "posix"
    /\ origemEhPasta = TRUE
    /\ arvore = {}
    /\ subpastas = TRUE
    /\ pcListar = "parado"
    /\ arquivos = <<>>
    /\ docling \in BOOLEAN
    /\ libgl \in BOOLEAN
    /\ tesseract \in BOOLEAN
    /\ bloqueadas = {}
    /\ saidas = {}
    /\ dicas = 0
    /\ LoteParado
    /\ ExtrairParado
    /\ LimparParado
    /\ pcMain = "inicio"
    /\ argumento \in Argumentos
    /\ resposta \in BOOLEAN
    /\ codigoSaida = -1

\* The script, from its first line to the exit of the process.  A
\* sys.exit(n) gives n; the end of the script gives 0; an exception that
\* nothing catches gives 1.
Principal ==
    /\ pcMain = "inicio"
    /\ pcMain' = "fim"
    /\ IF ~docling
       THEN \* lines 765-768
            /\ codigoSaida' = 1
            /\ UNCHANGED <<retorno, estatisticas>>
       ELSE IF argumento = "nenhum"
       THEN \* lines 770-772: mostrar_uso() and sys.exit(1)
            /\ codigoSaida' = 1
            /\ UNCHANGED <<retorno, estatisticas>>
       ELSE IF argumento = "pdf"
       THEN \* lines 777-787: ExtrairPdf(arquivo).extrair(), dependencies ignored
            \E convFalha, escritaFalha \in BOOLEAN :
               LET sucesso == ResultadoExtrair(TRUE, docling, libgl, tesseract, TRUE,
                                               convFalha, escritaFalha)
               IN  /\ retorno' = IF sucesso THEN "True" ELSE "False"
                   /\ codigoSaida' = IF sucesso THEN 0 ELSE 1
                   /\ UNCHANGED estatisticas
       ELSE IF argumento = "yamlAusente"
       THEN \* lines 792-801: the model file is offered; sys.exit(0)
            /\ codigoSaida' = 0
            /\ UNCHANGED <<retorno, estatisticas>>
       ELSE IF argumento = "yaml"
       THEN \* lines 803-813: ProcessarPasta(arquivo).processar()
            \/ \E e \in EstatisticasPossiveis :
                  /\ estatisticas' = {e}
                  /\ codigoSaida' = IF e.falha > 0 THEN 1 ELSE 0
                  /\ UNCHANGED retorno
            \/ \* the configuration cannot be read, or processar raises
               /\ codigoSaida' = 1
               /\ UNCHANGED <<retorno, estatisticas>>
       ELSE \* lines 815-819: a message, mostrar_uso() and sys.exit(1)
            /\ codigoSaida' = 1
            /\ UNCHANGED <<retorno, estatisticas>>
    /\ UNCHANGED <<argumento, resposta>>
    /\ UNCHANGED <<varsListar, varsAmbiente, varsLimpar>>
    /\ UNCHANGED <<sobrescrever, ignorarDependencias, logSeparado, pcLote, execucao,
                   indice, total, logGeralSalvo, tarefas, ignoradosExec, saidasInicio,
                   anterior, chamada, totalInicio>>
    /\ UNCHANGED <<pcExtrair, arquivoExiste, logExtrair, logExtrairSalvo,
                   converterChamado, converterFalhou, itens, paginasConteudo,
                   contadorImagens, markdownFinal, numPaginas, exportacao, emitidas>>

NextMain == Principal

SpecMain == InitMain /\ [][NextMain]_vars

-----------------------------------------------------------------------------
(* Properties of the listing. *)

\* A file whose extension is "pdf" in any mix of case.
ExtensaoPdf(n) == Extensao(n.nome) = <<"p", "d", "f">>

\* A file the listing is asked to look at: any file when subpastas is true,
\* a file of the top level otherwise.
NoEscopo(n) == subpastas \/ n.dir = <<>>

\* C5: when listar has returned, every file below the source directory whose
\* extension is "pdf" in any mix of case (and that is in a subdirectory only
\* if subpastas is true) is in the list.  The claim is read in the way most
\* favourable to it: a file counts as returned when the list holds it or a
\* path that differs from it in case only (the deduplication of C6).
C5_DescobertaCompleta ==
    pcListar = "fim" =>
        \A n \in arvore :
            (ExtensaoPdf(n) /\ NoEscopo(n)) =>
                \E i \in 1..Len(arquivos) :
                    CaminhoNormalizado(arquivos[i]) = CaminhoNormalizado(Caminho(n))

\* C6: the list listar returns holds no two paths that are equal after
\* lower-casing, holds only paths of the tree, and is in strictly ascending
\* order of Path comparison.
C6_SemDuplicatasEOrdenada ==
    pcListar = "fim" =>
        /\ \A i, j \in 1..Len(arquivos) :
               CaminhoNormalizado(arquivos[i]) = CaminhoNormalizado(arquivos[j]) => i = j
        /\ \A i \in 1..Len(arquivos) : \E n \in arvore : Caminho(n) = arquivos[i]
        /\ \A i, j \in 1..Len(arquivos) :
               i < j => PathLess(arquivos[i], arquivos[j], plataforma)

\* C6's case: the tree holds two files found by the globs whose paths differ
\* in case only, and the list returned holds more than one path.
C6_Witness ==
    /\ pcListar = "fim"
    /\ Len(arquivos) >= 2
    /\ \E m, n \in arvore :
           /\ m # n
           /\ CaminhoNormalizado(Caminho(m)) = CaminhoNormalizado(Caminho(n))
           /\ \A k \in {m, n} :
                  /\ NoEscopo(k)
                  /\ \/ GlobMatch(k.nome, SufixoMinusculo, plataforma)
                     \/ GlobMatch(k.nome, SufixoMaiusculo, plataforma)

-----------------------------------------------------------------------------
(* Properties of the batch runner. *)

\* What the claims call the mirrored outputs of a discovered file.
MdEspelhado(p) == Local("destino", p.dir, Stem(p.nome) \o SufixoMd)
LogEspelhado(p) ==
    Local(IF logSeparado THEN "log" ELSE "destino", p.dir, Stem(p.nome) \o SufixoLog)

\* C1: when a run in which every discovered file was extracted successfully
\* is followed by a run of a new ProcessarPasta with sobrescrever false (same
\* tree, same outputs, same dependencies), the second run returns
\* ignorados = the number of discovered files and processados = sucesso =
\* falha = 0.
C1_RetomadaIdempotente ==
    ( /\ execucao > 1
      /\ chamada = 1
      /\ pcLote = "fim"
      /\ ~sobrescrever
      /\ \E ant \in anterior : ant.estatisticas.sucesso = ant.encontrados ) =>
        estatisticas = {[processados |-> 0, sucesso |-> 0, falha |-> 0,
                         ignorados |-> Len(arquivos)]}

\* C2: a file the run skipped (its expected .md existed and sobrescrever is
\* false) is counted as skipped once, no ExtrairPdf job of the run is for it,
\* and its .md and its .log stay, until the run ends, as they were when the
\* file was skipped.
C2_IgnoradoIntocado ==
    /\ total.ignorados - totalInicio.ignorados = Len(ignoradosExec)
    /\ \A i \in 1..Len(ignoradosExec) :
          LET ig == ignoradosExec[i]
          IN  /\ \A j \in 1..Len(ignoradosExec) :
                     ignoradosExec[j].arquivo = ig.arquivo => i = j
              /\ \A k \in 1..Len(tarefas) : tarefas[k].arquivo # ig.arquivo
              /\ ig.md # {}
              /\ ig.md = {f \in saidas : f.local = MdEspelhado(ig.arquivo)}
              /\ ig.log = {f \in saidas : f.local = LogEspelhado(ig.arquivo)}

\* C3: no exception raised while a file of the loop is handled leaves
\* processar: the run is never aborted, it reaches the summary and returns
\* its statistics.
C3_FalhaContida == pcLote # "excecao"

\* C4: with ignorar_dependencias false and libgl or tesseract missing,
\* processar returns without listing: the run creates no job, writes no
\* output, and returns statistics that are all 0.
C4_ParadaEstrita ==
    (~ignorarDependencias /\ (~libgl \/ ~tesseract)) =>
        /\ pcLote \in {"inicio", "fim"}
        /\ arquivos = <<>>
        /\ tarefas = <<>>
        /\ ignoradosExec = <<>>
        /\ saidas = {}
        /\ pcLote = "fim" => (estatisticas = {Zeros} /\ logGeralSalvo)

\* C4's case: a strict run without an optional capability has returned, over
\* a source directory that holds files the listing would return.
C4_Witness ==
    /\ ~ignorarDependencias /\ libgl /\ ~tesseract
    /\ pcLote = "fim"
    /\ dicas = execucao
    /\ estatisticas = {Zeros}
    /\ \E ordem \in OrdensDeLeitura({Caminho(n) : n \in arvore}) :
           Listar(origemEhPasta, ordem, subpastas, plataforma) # <<>>

\* C7: for every job the run created for a discovered file
\* <source>/<rel>/<stem>.pdf, the output the runner expects is
\* <dest>/<rel>/<stem>.md, a successful job wrote exactly that file, and the
\* log of the job is <logroot>/<rel>/<stem>.log (the log root being the
\* destination root unless a distinct one is configured).
C7_CaminhosEspelhados ==
    \A k \in 1..Len(tarefas) :
        LET t == tarefas[k]
        IN  /\ t.esperado = MdEspelhado(t.arquivo)
            /\ t.sucesso => (t.md = t.esperado /\ Existe(saidas, t.esperado))
            /\ t.log = LogEspelhado(t.arquivo)

-----------------------------------------------------------------------------
(* Properties of the job. *)

\* The log holds the message at some position.
NoLog(log, msg) == \E i \in 1..Len(log) : log[i] = msg

\* The saved .log file holds the message.
NoArquivoDeLog(msg) ==
    \E f \in saidas :
        /\ f.local = LogDoJob
        /\ \E i \in 1..Len(f.conteudo) : f.conteudo[i] = msg

\* C8: the converter is called only when the input file exists and the
\* dependency check has passed, the existence check coming first; when the
\* file is missing, or docling is absent, or ignorar_dependencias is false
\* and libgl or tesseract is missing, extrair returns False, the converter is
\* never called and no .md is written.
C8_OrdemDasPortas ==
    LET passam == /\ arquivoExiste
                  /\ docling
                  /\ ignorarDependencias \/ (libgl /\ tesseract)
        checou == NoLog(logExtrair, "Informacoes do ambiente")
                  \/ NoLog(logExtrair, "ERRO CRITICO: docling")
    IN  /\ converterChamado > 0 => passam
        /\ checou => (arquivoExiste /\ logExtrair[1] = "Iniciando extracao")
        /\ \A i \in 1..Len(logExtrair) :
               logExtrair[i] = "Convertendo documento" =>
                   \E j \in 1..(i - 1) : logExtrair[j] = "Informacoes do ambiente"
        /\ pcExtrair \in {"converter", "montar", "gravar"} => passam
        /\ (pcExtrair = "fim" /\ ~passam) =>
               /\ retorno = "False"
               /\ converterChamado = 0
               /\ ~Existe(saidas, MdDoJob)
               /\ logExtrairSalvo

\* C8's case: a job in strict mode, the file present and docling installed,
\* has ended because tesseract is missing.
C8_Witness ==
    /\ pcExtrair = "fim"
    /\ arquivoExiste /\ docling /\ libgl
    /\ ~ignorarDependencias /\ ~tesseract
    /\ retorno = "False"
    /\ converterChamado = 0

ConteudoDe(item) == ConteudoItem(item, SemImagens).conteudo

\* An item that yields content: a picture, or a text whose content is not
\* empty.
TemConteudo(item) == item.tipo = "picture" \/ ConteudoDe(item) # <<>>

\* extrair has put the Markdown together.
Montado == NoLog(logExtrair, "Aplicando limpeza de texto")

\* The positions of the items of a page that yield content, in the order of
\* the stream.
PosicoesDaPagina(num) ==
    SelectSeq([i \in 1..Len(itens) |-> i],
              LAMBDA i : TemConteudo(itens[i]) /\ NumPagina(itens[i]) = num)

\* The pictures of the stream up to a position.
PicturesAte(i) == {j \in 1..i : itens[j].tipo = "picture"}

\* What tells the content of the item at a position from every other symbol
\* of the document: for a picture the image tag numbered by its rank among
\* the pictures of the stream, for a text the letter its content starts with.
MarcaDoItem(i) ==
    IF itens[i].tipo = "picture"
    THEN ImagemTag(Cardinality(PicturesAte(i)))
    ELSE Head(ConteudoDe(itens[i]))

\* The symbol is the mark of some item: the tag of a picture (the pictures
\* are numbered before any image reference of a text), or the first letter
\* of a text.
EhMarca(x) ==
    \/ EhImagemTag(x) /\ NumeroDaTag(x) <= Cardinality(PicturesAte(Len(itens)))
    \/ x \in {"a", "b", "c"}

PosicoesDasTags == {i \in 1..Len(markdownFinal) : EhPaginaTag(markdownFinal[i])}

\* The symbols between a page tag and the next page tag (or the end).
Bloco(i) ==
    LET depois == {j \in PosicoesDasTags : j > i}
        fim == IF depois = {} THEN Len(markdownFinal)
               ELSE (CHOOSE j \in depois : \A k \in depois : j <= k) - 1
    IN  SubSeq(markdownFinal, i + 1, fim)

\* The Markdown has been put together from pages with content.
MontadoComPaginas == Montado /\ paginasConteudo # <<>>

\* C10: the assembled document holds one page block for each page number
\* that has an item with content, the blocks are in ascending order of page
\* number whatever the order of the items, and in a block the contents of
\* the items of its page come in the order of the stream.
C10_PaginasEmOrdem ==
    MontadoComPaginas =>
        /\ EhPaginaTag(markdownFinal[1])
        /\ {NumeroDaTag(markdownFinal[i]) : i \in PosicoesDasTags}
               = {NumPagina(itens[i]) : i \in {j \in 1..Len(itens) : TemConteudo(itens[j])}}
        /\ \A i, j \in PosicoesDasTags :
               i < j => NumeroDaTag(markdownFinal[i]) < NumeroDaTag(markdownFinal[j])
        /\ \A i \in PosicoesDasTags :
               LET pos == PosicoesDaPagina(NumeroDaTag(markdownFinal[i]))
               IN  SelectSeq(Bloco(i), EhMarca) = [k \in 1..Len(pos) |-> MarcaDoItem(pos[k])]

\* C10's case: an item of a later page came before an item of an earlier
\* page, and one page has two contents of different kinds.
C10_Witness ==
    /\ MontadoComPaginas
    /\ \E i, j \in 1..Len(itens) :
           /\ i < j
           /\ TemConteudo(itens[i]) /\ TemConteudo(itens[j])
           /\ NumPagina(itens[i]) > NumPagina(itens[j])
    /\ \E i, j \in 1..Len(itens) :
           /\ i # j
           /\ TemConteudo(itens[i]) /\ TemConteudo(itens[j])
           /\ NumPagina(itens[i]) = NumPagina(itens[j])
           /\ itens[i].tipo # itens[j].tipo

\* C11: when the stream is empty or every item yields empty content, the
\* assembled document starts with the tag of page 1, holds no other page
\* tag, and after the tag comes the whole-document export of the converter
\* with its image references replaced (and cleaned); the page count the job
\* reports is 1.
C11_PaginaUnica ==
    (Montado /\ \A i \in 1..Len(itens) : ~TemConteudo(itens[i])) =>
        /\ markdownFinal # <<>>
        /\ markdownFinal[1] = PaginaTag(1)
        /\ PosicoesDasTags = {1}
        /\ PularIniciais(Tail(markdownFinal), Espacos)
               = LimparTexto(SubstituirImagensMarkdown(exportacao, SemImagens).texto)
        /\ retorno = "True" => numPaginas = 1

\* C11's case: a job whose items all yield empty content has ended with
\* success, the export of the document holding an image reference.
C11_Witness ==
    /\ pcExtrair = "fim"
    /\ retorno = "True"
    /\ itens # <<>>
    /\ \A i \in 1..Len(itens) : ~TemConteudo(itens[i])
    /\ \E i \in 1..Len(markdownFinal) : EhImagemTag(markdownFinal[i])
    /\ \E i \in 1..Len(markdownFinal) : ~EhTag(markdownFinal[i])

\* C12: the counter of images of a job starts at 0 and goes up by one with
\* each number issued: the k-th number issued is k, so each is greater than
\* all issued before it and none is issued twice; the pictures of the stream
\* are each counted once.
C12_ContadorCrescente ==
    /\ Len(emitidas) = contadorImagens
    /\ \A k \in 1..Len(emitidas) : emitidas[k] = k
    /\ \A j, k \in 1..Len(emitidas) : j < k => emitidas[j] < emitidas[k]
    /\ pcExtrair \in {"existe", "dependencias", "converter", "montar"} =>
           contadorImagens = 0
    /\ Montado => contadorImagens >= Cardinality(PicturesAte(Len(itens)))

\* C12's case: a job has put together a document of two pages with a
\* picture and with image references that two patterns matched.
C12_Witness ==
    /\ Montado
    /\ Len(paginasConteudo) >= 2
    /\ PicturesAte(Len(itens)) # {}
    /\ contadorImagens >= Cardinality(PicturesAte(Len(itens))) + 2

\* The content the fallback chain gives for a text item: its Markdown when a
\* rendering succeeds, else its plain text (empty when it has none).
ConteudoDaCadeia(item) ==
    IF item.exporta /\ (item.comDoc = "ok" \/ item.semDoc = "ok")
    THEN item.markdown
    ELSE item.text

\* C16: once the loop over the items has run, the document is put together
\* whatever the rendering of an item did, and every page holds, for each of
\* its text items in the order of the stream, the content the fallback chain
\* gives for it.
C16_FalhaDeItemContida ==
    NoLog(logExtrair, "Processando paginas") =>
        /\ Montado
        /\ \A k \in 1..Len(paginasConteudo) :
               LET pos == SelectSeq([i \in 1..Len(itens) |-> i],
                                    LAMBDA i :
                                        /\ NumPagina(itens[i]) = paginasConteudo[k].pagina
                                        /\ \/ itens[i].tipo = "picture"
                                           \/ ConteudoDaCadeia(itens[i]) # <<>>)
               IN  /\ Len(paginasConteudo[k].conteudos) = Len(pos)
                   /\ \A n \in 1..Len(pos) :
                          itens[pos[n]].tipo # "picture" =>
                              paginasConteudo[k].conteudos[n]
                                  = ConteudoDaCadeia(itens[pos[n]])

\* The positions of the image tags of the document.
PosicoesDasImagens == {i \in 1..Len(markdownFinal) : EhImagemTag(markdownFinal[i])}

\* C17: no image tag is matched by a pattern once it is in the text: every
\* number issued in the job is on a tag of the document, each on one tag, so
\* the document holds as many image tags as the counter says.
C17_TagsPreservadas ==
    Montado =>
        /\ {NumeroDaTag(markdownFinal[i]) : i \in PosicoesDasImagens} = 1..contadorImagens
        /\ Cardinality(PosicoesDasImagens) = contadorImagens

-----------------------------------------------------------------------------
(* Properties of limpar_texto. *)

\* C13: limpar_texto applied to its own result returns it unchanged.
C13_LimparIdempotente == Len(limpos) = 2 => limpos[2] = limpos[1]

\* C13's case: limpar_texto has been applied twice, the first time to a text
\* it shortened inside (a run was collapsed) without emptying it.
C13_Witness ==
    /\ Len(limpos) = 2
    /\ limpos[1] # <<>>
    /\ Len(limpos[1]) < Len(Strip(entrada))

-----------------------------------------------------------------------------
(* Properties of the counters of ProcessarPasta. *)

\* The files of this call the loop has handled so far.
Tratados ==
    IF pcLote = "laco" THEN indice - 1
    ELSE IF pcLote \in {"resumo", "fim"} THEN Len(arquivos)
    ELSE 0

\* The jobs of this call that returned True.
SucessosDaChamada == Cardinality({i \in 1..Len(tarefas) : tarefas[i].sucesso})

\* C15: the statistics a call of processar() returns count only the files
\* handled during that call: ignorados is the number of files the call
\* skipped, sucesso the number of its jobs that returned True, processados
\* the number of the other files it discovered and falha the rest of them,
\* also when the call is the second one on the same object.
C15_EstatisticasPorChamada ==
    pcLote = "fim" =>
        \A e \in estatisticas :
            /\ e.ignorados = Len(ignoradosExec)
            /\ e.sucesso = SucessosDaChamada
            /\ e.processados = Len(arquivos) - Len(ignoradosExec)
            /\ e.falha = e.processados - e.sucesso

\* C18: during processar no counter is below its value when the call began;
\* at every iteration boundary sucesso + falha = processados and sucesso,
\* falha and ignorados have together grown by one for each file handled;
\* and when a call that discovered N files returns, processados +
\* ignorados = N.
C18_ContabilidadeDoLote ==
    /\ pcLote \in {"inicio", "laco", "resumo", "fim"} =>
          /\ total.processados >= totalInicio.processados
          /\ total.sucesso >= totalInicio.sucesso
          /\ total.falha >= totalInicio.falha
          /\ total.ignorados >= totalInicio.ignorados
          /\ total.sucesso + total.falha = total.processados
          /\ (total.sucesso + total.falha + total.ignorados)
               - (totalInicio.sucesso + totalInicio.falha + totalInicio.ignorados)
             = Tratados
    /\ pcLote = "fim" =>
          \A e \in estatisticas : e.processados + e.ignorados = Len(arquivos)

-----------------------------------------------------------------------------
(* Properties of the program. *)

\* C14: with docling installed, the process ends with a status other than 0
\* when the extraction of the one file failed or a file of the batch failed,
\* and with 0 when the extraction or the whole batch succeeded, when the
\* help text was printed for want of an argument, and when the
\* configuration file was missing and the model file was offered.
C14_CodigoDeSaida ==
    (pcMain = "fim" /\ docling) =>
        /\ (argumento = "pdf" /\ retorno = "False") => codigoSaida # 0
        /\ (argumento = "pdf" /\ retorno = "True") => codigoSaida = 0
        /\ \A e \in estatisticas :
               argumento = "yaml" => (e.falha > 0 <=> codigoSaida # 0)
        /\ argumento = "nenhum" => codigoSaida = 0
        /\ argumento = "yamlAusente" => codigoSaida = 0

====
